---- MODULE Spec2Model ----
(***************************************************************************)
(* A model of the Karachi air-quality feature pipeline:                    *)
(*   - feature_engineering.py: engineer_features (a pandas pipeline) and   *)
(*     main (read raw group, engineer, insert into the feature group);     *)
(*   - app/api.py: POST /predict (build the input vector in the order of   *)
(*     feature_columns.json).                                              *)
(* A table is a record [cols, idx, data]: the ordered column names, the    *)
(* row labels, and one sequence of values per column.  A value is a record *)
(* [ty, n, d]: ty "nan" is a null, "int"/"float" the rational n/d, "sqrt"  *)
(* the float sqrt(n/d), "sin"/"cos" the float sin/cos(2*pi*n/d), "time" a  *)
(* datetime64 at n hours after the epoch, "str" a string that is no        *)
(* timestamp.  Row positions are 0-based as in pandas; sequences are       *)
(* 1-based, so position i is element i+1.                                  *)
(***************************************************************************)
EXTENDS Integers, Sequences, FiniteSets, TLC

VARIABLES
    pc,              \* where main() of feature_engineering.py stands
    outcome,         \* how main() ended, "running" until then
    fg_raw,          \* the raw feature group, once retrieved
    df_raw,          \* the table read from it
    df,              \* the table engineer_features works on
    df_sorted,       \* history: df as it left the sort of line 25
    df_features,     \* the table engineer_features returned
    store,           \* the tables inserted into karachi_air_quality_features
    described,       \* update_feature_descriptions was called
    feature_columns, \* api.py: the list loaded from feature_columns.json
    route,           \* api.py: the handler that answered
    incoming,        \* api.py: the features of the POST /predict payload
    latest,          \* api.py: the last row of features_data.csv
    x,               \* api.py: the vector handed to the model
    response,        \* api.py: the status of the response
    api_pc,          \* api.py: where the service stands
    train_pc,        \* train.py: where main() stands
    train_out,       \* train.py: how main() ended, "running" until then
    hopsworks_up,    \* train.py: login and get_feature_store succeed
    groups,          \* versions 1, 2 of karachi_air_quality_features
    files,           \* features_data.csv next to train.py and in the cwd
    local_path,      \* train.py: local_path of load_features_df
    tried,           \* history: the sources load_features_df went to
    train_df,        \* train.py: df of main()
    columns_json     \* the list in feature_columns.json

vars == <<pc, outcome, fg_raw, df_raw, df, df_sorted, df_features, store,
          described, feature_columns, route, incoming, latest, x, response,
          api_pc, train_pc, train_out, hopsworks_up, groups, files,
          local_path, tried, train_df, columns_json>>

fe_vars == <<pc, outcome, fg_raw, df_raw, df, df_sorted, df_features, store,
             described>>

api_vars == <<feature_columns, route, incoming, latest, x, response, api_pc>>

train_vars == <<train_pc, train_out, hopsworks_up, groups, files, local_path,
                tried, train_df, columns_json>>

-----------------------------------------------------------------------------
(* Bounds of the model. *)

\* tables of 1..SmallRows rows exercise the short lags and windows
SmallRows == 5

\* tables of FullRows..MaxRows rows have emitted rows (24 before, 6 after)
MaxRows == 32

\* the longest run of consecutive nulls placed in one channel
MaxNullRun == 2

\* the hour (since the epoch) of the earliest raw reading: 1970-01-31 10:00
TimeBase == 730

\* the longest string sent as a feature value
MaxStrLen == 2

-----------------------------------------------------------------------------
(* Values and their arithmetic (pandas float64 read as exact rationals). *)

NaN == [ty |-> "nan", n |-> 0, d |-> 1]

IsNull(v) == v.ty = "nan"

Abs(a) == IF a < 0 THEN -a ELSE a

RECURSIVE GCD(_, _)
GCD(a, b) == IF b = 0 THEN a ELSE GCD(b, a % b)

\* the float n/d in lowest terms, d > 0
Norm(n, d) ==
    LET g == GCD(Abs(n), d)
    IN  [ty |-> "float", n |-> n \div g, d |-> d \div g]

Flt(k) == [ty |-> "float", n |-> k, d |-> 1]

Int64(k) == [ty |-> "int", n |-> k, d |-> 1]

Add(a, b) ==
    LET g == GCD(a.d, b.d)
    IN  Norm(a.n * (b.d \div g) + b.n * (a.d \div g), (a.d \div g) * b.d)

Neg(a) == [a EXCEPT !.n = -a.n]

Sub(a, b) == Add(a, Neg(b))

Mul(a, b) ==
    LET g1 == GCD(Abs(a.n), b.d)
        g2 == GCD(Abs(b.n), a.d)
    IN  Norm((a.n \div g1) * (b.n \div g2), (a.d \div g2) * (b.d \div g1))

\* a / b; b = 0 gives an infinity, which pandas does not count as a null
Div(a, b) ==
    IF b.n = 0 THEN [ty |-> "inf", n |-> a.n, d |-> 1]
    ELSE IF b.n > 0 THEN Mul(a, [b EXCEPT !.n = b.d, !.d = b.n])
    ELSE Mul(a, [b EXCEPT !.n = -b.d, !.d = -b.n])

\* numeric equality, whatever the dtype
NumEq(a, b) == ~IsNull(a) /\ ~IsNull(b) /\ a.n * b.d = b.n * a.d

NumLess(a, b) == a.n * b.d < b.n * a.d

\* Series.astype(float): an int becomes the float of the same value
AsFloat(v) == IF v.ty = "int" THEN [v EXCEPT !.ty = "float"] ELSE v

\* Series.astype(np.int64) of a float: truncation toward zero
AsInt64(v) ==
    Int64(IF v.n >= 0 THEN v.n \div v.d ELSE -((-v.n) \div v.d))

-----------------------------------------------------------------------------
(* Series operations of pandas, on sequences of values. *)

Range(s) == {s[i] : i \in 1..Len(s)}

SetMax(S) == CHOOSE m \in S : \A k \in S : k <= m

SetMin(S) == CHOOSE m \in S : \A k \in S : m <= k

\* the number of nulls: Series.isnull().sum()
NullCount(s) == Cardinality({i \in 1..Len(s) : IsNull(s[i])})

\* the last valid element before i and the first after it (0 when none)
PrevValid(s, i) ==
    LET S == {j \in 1..(i - 1) : ~IsNull(s[j])}
    IN  IF S = {} THEN 0 ELSE SetMax(S)

NextValid(s, i) ==
    LET S == {j \in (i + 1)..Len(s) : ~IsNull(s[j])}
    IN  IF S = {} THEN 0 ELSE SetMin(S)

\* a slip: interpolate(method='pad'), a null takes the valid value before it
InterpolatePad(s) ==
    [i \in 1..Len(s) |->
        IF ~IsNull(s[i]) THEN AsFloat(s[i])
        ELSE IF \A j \in 1..(i - 1) : IsNull(s[j]) THEN NaN
        ELSE AsFloat(s[CHOOSE p \in 1..(i - 1) :
                          ~IsNull(s[p]) /\ \A j \in (p + 1)..(i - 1) : IsNull(s[j])])]

\* Series.interpolate(method='linear', limit_direction='both'): the values
\* are taken as equally spaced; a null between two valid values lies on
\* the line through them, a leading or trailing null takes the nearest
\* valid value, a series without a valid value stays as it is.
Interpolate(s) ==
    [i \in 1..Len(s) |->
        IF ~IsNull(s[i]) THEN AsFloat(s[i])
        ELSE LET p == PrevValid(s, i)
                 q == NextValid(s, i)
             IN  IF p = 0 /\ q = 0 THEN NaN
                 ELSE IF p = 0 THEN AsFloat(s[q])
                 ELSE IF q = 0 THEN AsFloat(s[p])
                 ELSE Add(s[p], Mul(Sub(s[q], s[p]), Norm(i - p, q - p)))]

\* Series.ffill() and Series.bfill()
FFill(s) ==
    [i \in 1..Len(s) |->
        IF ~IsNull(s[i]) \/ PrevValid(s, i) = 0 THEN s[i]
        ELSE s[PrevValid(s, i)]]

BFill(s) ==
    [i \in 1..Len(s) |->
        IF ~IsNull(s[i]) \/ NextValid(s, i) = 0 THEN s[i]
        ELSE s[NextValid(s, i)]]

\* Series.shift(k): the value of row i moves to row i+k, nulls fill the rest
Shift(s, k) ==
    [i \in 1..Len(s) |->
        IF i - k >= 1 /\ i - k <= Len(s) THEN AsFloat(s[i - k]) ELSE NaN]

\* The rolling aggregations slide over the series as pandas does: a value
\* that enters the window is added to the running count, sum and sum of
\* squares of the valid observations, the value that leaves is taken away.
\* Running(s, f)[k + 1] is the total of f over the valid values among the
\* first k.
RECURSIVE RunningFrom(_, _, _, _)
RunningFrom(s, f(_), k, acc) ==
    IF k > Len(s) THEN acc
    ELSE RunningFrom(s, f, k + 1,
            Append(acc, IF IsNull(s[k]) THEN acc[k] ELSE Add(acc[k], f(s[k]))))

Running(s, f(_)) == RunningFrom(s, f, 1, <<Flt(0)>>)

One(v) == Flt(1)

Same(v) == v

Square(v) == Mul(v, v)

\* the total of a running total over the window of w rows that ends at
\* row i (rows i-w+1 .. i, cut at the first row)
InWindow(run, i, w) == Sub(run[i + 1], run[IF i > w THEN i - w + 1 ELSE 1])

\* Series.rolling(window=w).mean(): min_periods defaults to the window, so
\* a window with fewer than w valid observations gives a null
RollingMean(s, w) ==
    LET cnt == Running(s, One)
        sum == Running(s, Same)
    IN  [i \in 1..Len(s) |->
            IF InWindow(cnt, i, w).n >= w
            THEN Mul(InWindow(sum, i, w), Norm(1, InWindow(cnt, i, w).n))
            ELSE NaN]

\* Series.rolling(window=w).std(): the sample deviation (ddof = 1): the
\* square root of (sum(x^2) - sum(x)^2 / nobs) / (nobs - 1)
RollingStd(s, w) ==
    LET cnt == Running(s, One)
        sum == Running(s, Same)
        sq  == Running(s, Square)
    IN  [i \in 1..Len(s) |->
            IF InWindow(cnt, i, w).n >= w /\ InWindow(cnt, i, w).n > 1
            THEN LET nobs == InWindow(cnt, i, w).n
                     sx   == InWindow(sum, i, w)
                     v    == Mul(Sub(InWindow(sq, i, w),
                                     Mul(Mul(sx, sx), Norm(1, nobs))),
                                 Norm(1, nobs - 1))
                 IN  [ty |-> "sqrt", n |-> v.n, d |-> v.d]
            ELSE NaN]

-----------------------------------------------------------------------------
(* Tables (pandas DataFrames). *)

NoDf == [cols |-> <<>>, idx |-> <<>>, data |-> <<>>]

NRows(t) == Len(t.idx)

HasCol(t, c) == c \in Range(t.cols)

\* df[c] = s: an existing column is replaced in place, a new one is appended
WithCol(t, c, s) ==
    [cols |-> IF HasCol(t, c) THEN t.cols ELSE Append(t.cols, c),
     idx  |-> t.idx,
     data |-> [k \in DOMAIN t.data \cup {c} |-> IF k = c THEN s ELSE t.data[k]]]

\* the assignments df[names[1]] = colOf(names[1]), df[names[2]] = ..., one
\* after the other, none of which reads a column an earlier one wrote
AddCols(t, names, colOf(_)) ==
    [cols |-> t.cols \o SelectSeq(names, LAMBDA c : ~HasCol(t, c)),
     idx  |-> t.idx,
     data |-> [k \in DOMAIN t.data \cup Range(names) |->
                 IF k \in Range(names) THEN colOf(k) ELSE t.data[k]]]

\* df.drop(columns=cs)
DropCols(t, cs) ==
    [cols |-> SelectSeq(t.cols, LAMBDA c : c \notin cs),
     idx  |-> t.idx,
     data |-> [k \in DOMAIN t.data \ cs |-> t.data[k]]]

\* the rows of t at the places ord[1], ord[2], ..., with their labels
TakeRows(t, ord) ==
    [cols |-> t.cols,
     idx  |-> [i \in 1..Len(ord) |-> t.idx[ord[i]]],
     data |-> [k \in DOMAIN t.data |-> [i \in 1..Len(ord) |-> t.data[k][ord[i]]]]]

\* every column mapped through f
MapCols(t, f(_)) == [t EXCEPT !.data = [k \in DOMAIN t.data |-> f(t.data[k])]]

\* the places of a set of places, ascending
RECURSIVE Ascending(_)
Ascending(S) ==
    IF S = {} THEN <<>> ELSE <<SetMin(S)>> \o Ascending(S \ {SetMin(S)})

RowHasNull(t, i) == \E k \in DOMAIN t.data : IsNull(t.data[k][i])

HasNull(t) == \E i \in 1..NRows(t) : RowHasNull(t, i)

-----------------------------------------------------------------------------
(* The configuration written in engineer_features. *)

pollutant_cols == <<"aqi", "co", "no", "no2", "o3", "so2", "pm2_5", "pm10", "nh3">>

pollutants == <<"pm2_5", "pm10", "co", "o3", "no2", "so2">>

lags == <<1, 3, 24>>

windows == <<3, 12, 24>>

\* the target columns: the channel and the forward horizon of each
targets ==
    << [name |-> "pm2_5_target_1h", col |-> "pm2_5", h |-> 1],
       [name |-> "pm2_5_target_6h", col |-> "pm2_5", h |-> 6],
       [name |-> "aqi_target_1h",   col |-> "aqi",   h |-> 1] >>

LagName(c, h) == c \o "_lag_" \o ToString(h) \o "h"

RollAvgName(c, w) == c \o "_roll_avg_" \o ToString(w) \o "h"

RollStdName(c, w) == c \o "_roll_std_" \o ToString(w) \o "h"

\* the columns main() reads from the raw feature group
RawCols == <<"timestamp">> \o pollutant_cols

-----------------------------------------------------------------------------
(* engineer_features, stage by stage. *)

\* 1. pd.to_datetime raises on a column that is absent or holds a string
\*    that is no timestamp
NormalizeRaises(t) ==
    \/ ~HasCol(t, "timestamp")
    \/ \E i \in 1..NRows(t) : t.data["timestamp"][i].ty = "str"

\* the places of the rows by ascending timestamp, equal timestamps in the
\* order of the input
RECURSIVE SortPlaces(_, _)
SortPlaces(ts, S) ==
    IF S = {} THEN <<>>
    ELSE LET m == CHOOSE i \in S : \A j \in S :
                      \/ ts[i].n < ts[j].n
                      \/ ts[i].n = ts[j].n /\ i <= j
         IN  <<m>> \o SortPlaces(ts, S \ {m})

SwapAt(ord, i) ==
    [k \in 1..Len(ord) |->
        IF k = i THEN ord[i + 1] ELSE IF k = i + 1 THEN ord[i] ELSE ord[k]]

\* sort_values(by='timestamp') sorts with quicksort, which is not stable:
\* two rows of one timestamp come out in either order
SortOrders(ts) ==
    LET ord == SortPlaces(ts, 1..Len(ts))
    IN  {ord} \cup {SwapAt(ord, i) : i \in {k \in 1..(Len(ord) - 1) :
                                              ts[ord[k]].n = ts[ord[k + 1]].n}}

\* reset_index(drop=True): the rows are labelled 0, 1, ... anew
ResetIndex(t) == [t EXCEPT !.idx = [i \in 1..NRows(t) |-> i - 1]]

\* sort_values(by='timestamp').reset_index(drop=True), for one sort order
SortValues(t, ord) == ResetIndex(TakeRows(t, ord))

\* IMPUTATION: df[col] raises KeyError on an absent channel
ImputeRaises(t) == \E i \in 1..Len(pollutant_cols) : ~HasCol(t, pollutant_cols[i])

\* one channel: interpolated when it has a null
ImputeColumn(s) == IF NullCount(s) > 0 THEN Interpolate(s) ELSE s

\* df.ffill().bfill() on one column
FillColumn(s) == BFill(FFill(s))

\* set_index('timestamp'), the loop over pollutant_cols, ffill().bfill(),
\* reset_index(): the timestamp, the index meanwhile, is not filled and
\* comes back as the first column
Impute(t) ==
    LET rest == SelectSeq(t.cols, LAMBDA c : c # "timestamp")
    IN  [cols |-> <<"timestamp">> \o rest,
         idx  |-> [i \in 1..NRows(t) |-> i - 1],
         data |-> [k \in DOMAIN t.data |->
                     IF k = "timestamp" THEN t.data[k]
                     ELSE IF k \in Range(pollutant_cols)
                          THEN FillColumn(ImputeColumn(t.data[k]))
                          ELSE FillColumn(t.data[k])]]

\* 2. the calendar fields of a timestamp of 1970 (a Thursday began it)
HourOf(v) == v.n % 24

DayOfWeekOf(v) == ((v.n \div 24) + 3) % 7

MonthStarts == <<0, 31, 59, 90, 120, 151, 181, 212, 243, 273, 304, 334>>

MonthOf(v) ==
    Cardinality({m \in 1..12 : MonthStarts[m] <= (v.n \div 24) % 365})

Sin(k, period) == [ty |-> "sin", n |-> k, d |-> period]

Cos(k, period) == [ty |-> "cos", n |-> k, d |-> period]

\* the six cyclical columns; hour, day_of_week and month are dropped again
Cyclical(t) ==
    LET ts == t.data["timestamp"]
        N  == NRows(t)
        t1 == AddCols(t, <<"hour", "day_of_week", "month">>,
                  LAMBDA c : [i \in 1..N |->
                      Int64(IF c = "hour" THEN HourOf(ts[i])
                            ELSE IF c = "day_of_week" THEN DayOfWeekOf(ts[i])
                            ELSE MonthOf(ts[i]))])
        t2 == AddCols(t1, <<"hour_sin", "hour_cos", "day_of_week_sin",
                            "day_of_week_cos", "month_sin", "month_cos">>,
                  LAMBDA c : [i \in 1..N |->
                      CASE c = "hour_sin" -> Sin(t1.data["hour"][i].n, 24)
                        [] c = "hour_cos" -> Cos(t1.data["hour"][i].n, 24)
                        [] c = "day_of_week_sin" -> Sin(t1.data["day_of_week"][i].n, 7)
                        [] c = "day_of_week_cos" -> Cos(t1.data["day_of_week"][i].n, 7)
                        [] c = "month_sin" -> Sin(t1.data["month"][i].n, 12)
                        [] c = "month_cos" -> Cos(t1.data["month"][i].n, 12)])
    IN  DropCols(t2, {"hour", "day_of_week", "month"})

\* a slip: the lag one row short
LagColumnShort(s, lag) == Shift(s, lag - 1)

\* 3. df[col].shift(lag)
LagColumn(s, lag) == Shift(s, lag)

\* the iterations of the loops over pollutants and lags, in their order
LagSpecs ==
    [k \in 1..(Len(pollutants) * Len(lags)) |->
        LET c == pollutants[((k - 1) \div Len(lags)) + 1]
            l == lags[((k - 1) % Len(lags)) + 1]
        IN  [name |-> LagName(c, l), col |-> c, lag |-> l]]

SpecNamed(specs, name) == specs[CHOOSE k \in 1..Len(specs) : specs[k].name = name]

Names(specs) == [k \in 1..Len(specs) |-> specs[k].name]

Lags(t) ==
    AddCols(t, Names(LagSpecs),
            LAMBDA c : LagColumn(t.data[SpecNamed(LagSpecs, c).col],
                                 SpecNamed(LagSpecs, c).lag))

\* a slip: the shift(1) forgotten, the window ends at the row itself
RollAvgColumnNoShift(s, window) == RollingMean(s, window)

\* 4. df[col].shift(1).rolling(window=window).mean() and .std()
RollAvgColumn(s, window) == RollingMean(Shift(s, 1), window)

RollStdColumn(s, window) == RollingStd(Shift(s, 1), window)

\* the iterations of the loops over pollutants and windows: the mean, then
\* the deviation of each
RollSpecs ==
    [k \in 1..(2 * Len(pollutants) * Len(windows)) |->
        LET j == (k - 1) \div 2
            c == pollutants[(j \div Len(windows)) + 1]
            w == windows[(j % Len(windows)) + 1]
        IN  IF k % 2 = 1
            THEN [name |-> RollAvgName(c, w), col |-> c, window |-> w, agg |-> "mean"]
            ELSE [name |-> RollStdName(c, w), col |-> c, window |-> w, agg |-> "std"]]

Rolling(t) ==
    AddCols(t, Names(RollSpecs),
            LAMBDA c :
                LET sp == SpecNamed(RollSpecs, c)
                IN  IF sp.agg = "mean"
                    THEN RollAvgColumn(t.data[sp.col], sp.window)
                    ELSE RollStdColumn(t.data[sp.col], sp.window))

\* 5. no_x and pm2_5_to_pm10_ratio, row by row
Epsilon == Norm(1, 1000000)

Interaction(t) ==
    LET N  == NRows(t)
        nv(a, b) == IF IsNull(a) \/ IsNull(b) THEN NaN ELSE Add(a, b)
        rv(a, b) == IF IsNull(a) \/ IsNull(b) THEN NaN ELSE Div(a, Add(b, Epsilon))
        t1 == WithCol(t, "no_x",
                      [i \in 1..N |-> nv(t.data["no"][i], t.data["no2"][i])])
    IN  WithCol(t1, "pm2_5_to_pm10_ratio",
                [i \in 1..N |-> rv(t1.data["pm2_5"][i], t1.data["pm10"][i])])

\* a slip: the shift taken backward
TargetColumnBackward(s, h) == Shift(s, h)

\* 6. df[col].shift(-h)
TargetColumn(s, h) == Shift(s, -h)

Targets(t) ==
    AddCols(t, Names(targets),
            LAMBDA c : TargetColumn(t.data[SpecNamed(targets, c).col],
                                    SpecNamed(targets, c).h))

\* a slip: dropna() looks at the lag and window columns only and keeps
\* the rows whose target is a null
DropNaPastOnly(t) ==
    TakeRows(t, Ascending({i \in 1..NRows(t) :
        \A c \in DOMAIN t.data :
            (\A k \in 1..Len(targets) : c # targets[k].name) => ~IsNull(t.data[c][i])}))

\* 7. df.dropna(): the rows without a null, under their labels
DropNa(t) == TakeRows(t, Ascending({i \in 1..NRows(t) : ~RowHasNull(t, i)}))

\* df.fillna(0)
FillNa0(t) ==
    MapCols(t, LAMBDA s : [i \in 1..Len(s) |-> IF IsNull(s[i]) THEN Flt(0) ELSE s[i]])

\* a slip: the clean-up left out
CleanUpSkipped(t) == t

CleanUp(t) == FillNa0(DropNa(t))

\* timestamp_seconds (nanoseconds // 10^9 of an hour count), aqi back to
\* int64, every other column but the two keys to float
Finalize(t) ==
    LET N  == NRows(t)
        t1 == WithCol(t, "timestamp_seconds",
                      [i \in 1..N |-> Int64(t.data["timestamp"][i].n * 3600)])
        t2 == WithCol(t1, "aqi", [i \in 1..N |-> AsInt64(t1.data["aqi"][i])])
    IN  [t2 EXCEPT !.data =
            [k \in DOMAIN t2.data |->
                IF k \in {"timestamp", "timestamp_seconds", "aqi"} THEN t2.data[k]
                ELSE [i \in 1..N |-> AsFloat(t2.data[k][i])]]]

-----------------------------------------------------------------------------
(* The raw tables fg_raw.read() may return. *)

\* the fewest rows with an emitted row: the longest lag before it, the
\* longest horizon after it
FullRows == lags[3] + targets[2].h + 1

Sizes == (1..SmallRows) \cup (FullRows..MaxRows)

\* the channels a null is placed in: a target channel cast to int, a lagged
\* and windowed target channel, a channel used by no_x only
NullChannels == {"aqi", "pm2_5", "no"}

ChannelIndex(c) == CHOOSE i \in 1..Len(pollutant_cols) : pollutant_cols[i] = c

\* the reading of channel c in the k-th hour of the series (k = 0, 1, ...)
RawVal(c, k) ==
    IF c = "pm2_5" THEN Flt(10 * ((k % 8) + 1))
    ELSE IF c = "aqi" THEN Int64((k % 5) + 1)
    ELSE Flt(((k * k + ChannelIndex(c) * k) % 7) + ChannelIndex(c))

\* The tables read: plain ones in either row order; a run of nulls in one
\* channel (in either row order when the table is small); a channel that is
\* null in every row; three missing hours, a repeated timestamp, or a
\* string that is no timestamp, early or at the end; an absent column; the
\* columns in another order.
Variants ==
    [kind : {"plain"}, n : Sizes \cup {0}, order : {"asc", "desc"},
     ch : {"none"}, at : {0}, len : {0}]
    \cup
    {v \in [kind : {"nulls"}, n : Sizes, order : {"asc", "desc"},
            ch : NullChannels, at : 0..(MaxRows - 1), len : 1..MaxNullRun] :
        /\ v.at + v.len <= v.n
        /\ v.order = "desc" => v.n <= SmallRows}
    \cup
    {v \in [kind : {"nulls"}, n : Sizes, order : {"asc"},
            ch : NullChannels, at : {0}, len : Sizes] : v.len = v.n}
    \cup
    {v \in [kind : {"gap", "dup", "badts"}, n : Sizes, order : {"asc"},
            ch : {"none"}, at : 1..(MaxRows - 1), len : {0}] :
        v.at \in {1, v.n - 1}}
    \cup
    [kind : {"nocol"}, n : Sizes, order : {"asc"},
     ch : {"timestamp", "pm2_5", "nh3"}, at : {0}, len : {0}]
    \cup
    [kind : {"colorder"}, n : Sizes, order : {"asc"},
     ch : {"none"}, at : {0}, len : {0}]

\* the hour of the k-th reading: hourly, with three hours missing before
\* reading v.at, or with reading v.at at the hour of the one before it
HourAt(v, k) ==
    TimeBase + k + (IF v.kind = "gap" /\ k >= v.at THEN 3 ELSE 0)
                 - (IF v.kind = "dup" /\ k >= v.at THEN 1 ELSE 0)

Reverse(s) == [i \in 1..Len(s) |-> s[Len(s) + 1 - i]]

RawColsOf(v) ==
    IF v.kind = "nocol" THEN SelectSeq(RawCols, LAMBDA c : c # v.ch)
    ELSE IF v.kind = "colorder" THEN Reverse(RawCols)
    ELSE RawCols

RawTable(v) ==
    LET K(r) == IF v.order = "asc" THEN r - 1 ELSE v.n - r
        nullAt(c, k) ==
            v.kind = "nulls" /\ c = v.ch /\ v.at <= k /\ k < v.at + v.len
        val(c, k) ==
            IF c = "timestamp"
            THEN IF v.kind = "badts" /\ k = v.at
                 THEN [ty |-> "str", n |-> 0, d |-> 1]
                 ELSE [ty |-> "time", n |-> HourAt(v, k), d |-> 1]
            ELSE IF nullAt(c, k) THEN NaN
            ELSE IF v.kind = "nulls" /\ c = v.ch THEN AsFloat(RawVal(c, k))
            ELSE RawVal(c, k)
    IN  [cols |-> RawColsOf(v),
         idx  |-> [r \in 1..v.n |-> r - 1],
         data |-> [c \in Range(RawColsOf(v)) |-> [r \in 1..v.n |-> val(c, K(r))]]]

\* what a feature group version or a local file holds: a table, or nothing
\* that can be had ("missing", "absent"), or something that cannot be read
Nothing(why) == [state |-> why, t |-> NoDf]

Holding(t) == [state |-> "table", t |-> t]

\* train.py is not running
TrainIdle ==
    /\ train_pc = "off"
    /\ train_out = "running"
    /\ hopsworks_up = FALSE
    /\ groups = [v \in {1, 2} |-> Nothing("missing")]
    /\ files = [f \in {"here", "cwd"} |-> Nothing("absent")]
    /\ local_path = "none"
    /\ tried = <<>>
    /\ train_df = NoDf
    /\ columns_json = <<>>

-----------------------------------------------------------------------------
(* main() of feature_engineering.py. *)

Init ==
    /\ pc = "login"
    /\ outcome = "running"
    /\ fg_raw = "none"
    /\ df_raw = NoDf
    /\ df = NoDf
    /\ df_sorted = NoDf
    /\ df_features = NoDf
    /\ store = <<>>
    /\ described = FALSE
    /\ feature_columns = <<>>
    /\ route = "none"
    /\ incoming = <<>>
    /\ latest = <<>>
    /\ x = <<>>
    /\ response = "none"
    /\ api_pc = "off"
    /\ TrainIdle

\* an exception reaches the handler of main(): the message is printed, the
\* locals of engineer_features are gone, main returns
Raise ==
    /\ pc' = "done"
    /\ outcome' = "exception"
    /\ df' = NoDf

\* hopsworks.login()
Login ==
    /\ pc = "login"
    /\ \/ pc' = "get_fs" /\ UNCHANGED <<outcome, df>>
       \/ Raise
    /\ UNCHANGED <<fg_raw, df_raw, df_sorted, df_features, store, described>>
    /\ UNCHANGED <<api_vars, train_vars>>

\* project.get_feature_store()
GetFeatureStore ==
    /\ pc = "get_fs"
    /\ \/ pc' = "get_raw_fg" /\ UNCHANGED <<outcome, df>>
       \/ Raise
    /\ UNCHANGED <<fg_raw, df_raw, df_sorted, df_features, store, described>>
    /\ UNCHANGED <<api_vars, train_vars>>

\* fs.get_feature_group("karachi_air_quality_raw", 1): on an exception
\* main prints and returns
GetRawFeatureGroup ==
    /\ pc = "get_raw_fg"
    /\ \/ fg_raw' = "retrieved" /\ pc' = "read" /\ UNCHANGED outcome
       \/ fg_raw' = "none" /\ pc' = "done" /\ outcome' = "raw_group_missing"
    /\ UNCHANGED <<df_raw, df, df_sorted, df_features, store, described>>
    /\ UNCHANGED <<api_vars, train_vars>>

\* df_raw = fg_raw.read()
ReadRaw ==
    /\ pc = "read"
    /\ \/ \E v \in Variants :
            /\ df_raw' = RawTable(v)
            /\ pc' = "check_raw"
            /\ UNCHANGED <<outcome, df>>
       \/ Raise /\ UNCHANGED df_raw
    /\ UNCHANGED <<fg_raw, df_sorted, df_features, store, described>>
    /\ UNCHANGED <<api_vars, train_vars>>

\* df_raw.empty
RawEmptyReturns(t) == NRows(t) = 0 \/ Len(t.cols) = 0

CheckRawEmpty ==
    /\ pc = "check_raw"
    /\ IF RawEmptyReturns(df_raw)
       THEN pc' = "done" /\ outcome' = "raw_empty"
       ELSE pc' = "normalize" /\ UNCHANGED outcome
    /\ UNCHANGED <<fg_raw, df_raw, df, df_sorted, df_features, store, described>>
    /\ UNCHANGED <<api_vars, train_vars>>

\* the parts of main() a step of engineer_features leaves alone
EngineerFrame ==
    /\ UNCHANGED <<fg_raw, df_raw, df_features, store, described>>
    /\ UNCHANGED <<api_vars, train_vars>>

\* engineer_features(df_raw), lines 22-25: copy, parse the timestamps, sort
Normalize ==
    /\ pc = "normalize"
    /\ IF NormalizeRaises(df_raw)
       THEN Raise /\ UNCHANGED df_sorted
       ELSE /\ \E ord \in SortOrders(df_raw.data["timestamp"]) :
                    df' = SortValues(df_raw, ord)
            /\ df_sorted' = df'
            /\ pc' = "impute"
            /\ UNCHANGED outcome
    /\ EngineerFrame

\* lines 27-41: the imputation
ImputeStep ==
    /\ pc = "impute"
    /\ IF ImputeRaises(df)
       THEN Raise
       ELSE df' = Impute(df) /\ pc' = "cyclical" /\ UNCHANGED outcome
    /\ UNCHANGED df_sorted
    /\ EngineerFrame

\* lines 43-56
CyclicalStep ==
    /\ pc = "cyclical"
    /\ df' = Cyclical(df)
    /\ UNCHANGED df_sorted
    /\ pc' = "lags"
    /\ UNCHANGED outcome
    /\ EngineerFrame

\* lines 58-65
LagStep ==
    /\ pc = "lags"
    /\ df' = Lags(df)
    /\ UNCHANGED df_sorted
    /\ pc' = "rolling"
    /\ UNCHANGED outcome
    /\ EngineerFrame

\* lines 67-74
RollingStep ==
    /\ pc = "rolling"
    /\ df' = Rolling(df)
    /\ UNCHANGED df_sorted
    /\ pc' = "interaction"
    /\ UNCHANGED outcome
    /\ EngineerFrame

\* lines 76-79
InteractionStep ==
    /\ pc = "interaction"
    /\ df' = Interaction(df)
    /\ UNCHANGED df_sorted
    /\ pc' = "targets"
    /\ UNCHANGED outcome
    /\ EngineerFrame

\* lines 81-85
TargetStep ==
    /\ pc = "targets"
    /\ df' = Targets(df)
    /\ UNCHANGED df_sorted
    /\ pc' = "cleanup"
    /\ UNCHANGED outcome
    /\ EngineerFrame

\* lines 87-92
CleanUpStep ==
    /\ pc = "cleanup"
    /\ df' = CleanUp(df)
    /\ UNCHANGED df_sorted
    /\ pc' = "finalize"
    /\ UNCHANGED outcome
    /\ EngineerFrame

\* lines 94-109: the key, the casts, and the return to main()
FinalizeStep ==
    /\ pc = "finalize"
    /\ df_features' = Finalize(df)
    /\ df' = NoDf
    /\ pc' = "check_features"
    /\ UNCHANGED <<outcome, fg_raw, df_raw, df_sorted, store, described>>
    /\ UNCHANGED <<api_vars, train_vars>>

\* a slip: the emptiness check left out
FeaturesNeverEmpty(t) == FALSE

\* df_features.empty
FeaturesEmptyReturns(t) == NRows(t) = 0 \/ Len(t.cols) = 0

CheckFeaturesEmpty ==
    /\ pc = "check_features"
    /\ IF FeaturesEmptyReturns(df_features)
       THEN pc' = "done" /\ outcome' = "features_empty"
       ELSE pc' = "get_or_create" /\ UNCHANGED outcome
    /\ UNCHANGED <<fg_raw, df_raw, df, df_sorted, df_features, store, described>>
    /\ UNCHANGED <<api_vars, train_vars>>

\* fs.get_or_create_feature_group("karachi_air_quality_features", 2, ...)
GetOrCreateFeatureGroup ==
    /\ pc = "get_or_create"
    /\ \/ pc' = "insert" /\ UNCHANGED <<outcome, df>>
       \/ Raise
    /\ UNCHANGED <<fg_raw, df_raw, df_sorted, df_features, store, described>>
    /\ UNCHANGED <<api_vars, train_vars>>

\* fg_engineered.insert(df_features, wait_for_job): the table is in the
\* group when the call returns, and is not when it raises
Insert ==
    /\ pc = "insert"
    /\ \/ store' = Append(store, df_features) /\ pc' = "describe"
          /\ UNCHANGED <<outcome, df>>
       \/ Raise /\ UNCHANGED store
    /\ UNCHANGED <<fg_raw, df_raw, df_sorted, df_features, described>>
    /\ UNCHANGED <<api_vars, train_vars>>

\* update_feature_descriptions(fg_engineered): every failed update is
\* caught and printed, the call returns whatever happens
Describe ==
    /\ pc = "describe"
    /\ described' = TRUE
    /\ pc' = "done"
    /\ outcome' = "complete"
    /\ UNCHANGED <<fg_raw, df_raw, df, df_sorted, df_features, store>>
    /\ UNCHANGED <<api_vars, train_vars>>

Next ==
    \/ Login
    \/ GetFeatureStore
    \/ GetRawFeatureGroup
    \/ ReadRaw
    \/ CheckRawEmpty
    \/ Normalize
    \/ ImputeStep
    \/ CyclicalStep
    \/ LagStep
    \/ RollingStep
    \/ InteractionStep
    \/ TargetStep
    \/ CleanUpStep
    \/ FinalizeStep
    \/ CheckFeaturesEmpty
    \/ GetOrCreateFeatureGroup
    \/ Insert
    \/ Describe

Spec == Init /\ [][Next]_vars

-----------------------------------------------------------------------------
(* app/api.py: the prediction service. *)

\* A value of a request or of a row: [ty, n, d, s] with ty "int" or "bool"
\* (the integer n), "float" (n/d), "str" (the characters s), "none", "list".
JInt(k) == [ty |-> "int", n |-> k, d |-> 1, s |-> <<>>]

JFloat(n, d) == [ty |-> "float", n |-> n, d |-> d, s |-> <<>>]

JStr(s) == [ty |-> "str", n |-> 0, d |-> 1, s |-> s]

JNone == [ty |-> "none", n |-> 0, d |-> 1, s |-> <<>>]

JTrue == [ty |-> "bool", n |-> 1, d |-> 1, s |-> <<>>]

JList == [ty |-> "list", n |-> 0, d |-> 1, s |-> <<>>]

Digits == {"1", "5"}

DigitValue(c) == IF c = "1" THEN 1 ELSE 5

RECURSIVE Decimal(_)
Decimal(ds) ==
    IF ds = <<>> THEN 0
    ELSE 10 * Decimal(SubSeq(ds, 1, Len(ds) - 1)) + DigitValue(ds[Len(ds)])

RECURSIVE Pow10(_)
Pow10(k) == IF k = 0 THEN 1 ELSE 10 * Pow10(k - 1)

\* the text of a float as Python reads it, over the characters the requests
\* are written in: an optional sign, digits with at most one point, at
\* least one digit
Unsigned(s) == IF s # <<>> /\ s[1] = "-" THEN Tail(s) ELSE s

PointsOf(s) == {i \in 1..Len(s) : s[i] = "."}

IsFloatText(s) ==
    LET b == Unsigned(s)
    IN  /\ \A i \in 1..Len(b) : b[i] \in Digits \cup {"."}
        /\ Cardinality(PointsOf(b)) <= 1
        /\ \E i \in 1..Len(b) : b[i] \in Digits

ParseFloat(s) ==
    LET b    == Unsigned(s)
        ds   == SelectSeq(b, LAMBDA c : c \in Digits)
        frac == IF PointsOf(b) = {} THEN 0
                ELSE Len(b) - (CHOOSE i \in PointsOf(b) : TRUE)
        mag  == Norm(Decimal(ds), Pow10(frac))
    IN  IF s[1] = "-" THEN Neg(mag) ELSE mag

\* float(val) raises on None, on a list, on a string that is no number
FloatRaises(val) ==
    \/ val.ty \in {"none", "list"}
    \/ val.ty = "str" /\ ~IsFloatText(val.s)

\* float(val) where it does not raise
PyFloat(val) ==
    IF val.ty = "str" THEN ParseFloat(val.s) ELSE Norm(val.n, val.d)

\* dict.get(c, 0) and Series.get(c, 0)
Get(map, c) == IF c \in DOMAIN map THEN map[c] ELSE JInt(0)

\* a slip: the entries in the order opposite to feature_columns
PredictVectorReversed(cols, map) ==
    [k \in 1..Len(cols) |->
        LET val == Get(map, cols[Len(cols) + 1 - k])
        IN  IF FloatRaises(val) THEN Flt(0) ELSE PyFloat(val)]

\* POST /predict, the loop of lines 56-62: one entry per column of
\* feature_columns, 0.0 where float() raises
RECURSIVE PredictVector(_, _)
PredictVector(cols, map) ==
    IF cols = <<>> THEN <<>>
    ELSE <<IF FloatRaises(Get(map, Head(cols))) THEN Flt(0)
           ELSE PyFloat(Get(map, Head(cols)))>>
         \o PredictVector(Tail(cols), map)

\* GET /predict/latest, the loop of lines 46-48: float() is not guarded
LatestRaises(cols, row) ==
    \E k \in 1..Len(cols) : FloatRaises(Get(row, cols[k]))

LatestVector(cols, row) == [k \in 1..Len(cols) |-> PyFloat(Get(row, cols[k]))]

\* the lists feature_columns.json may hold, and the keys of a request: the
\* names of the lists and one name that is in none
FeatureLists ==
    { <<"pm2_5", "pm10", "hour_sin">>, <<"hour_sin", "pm2_5">>, <<"pm10">>, <<>> }

Keys == {"pm2_5", "pm10", "hour_sin", "city"}

RECURSIVE Strings(_)
Strings(k) ==
    IF k = 0 THEN {<<>>}
    ELSE Strings(k - 1) \cup
         {Append(s, c) : s \in {t \in Strings(k - 1) : Len(t) = k - 1},
                         c \in Digits \cup {".", "-", "x"}}

PlainValues == {JInt(7), JNone}

OtherValues ==
    {JInt(0), JFloat(5, 2), JTrue, JList} \cup {JStr(s) : s \in Strings(MaxStrLen)}

\* a mapping of some of the keys to plain values, one key perhaps to any
\* other value
Mappings ==
    LET base == UNION {[ks -> PlainValues] : ks \in SUBSET Keys}
    IN  base \cup
        {[k \in DOMAIN b \cup {key} |-> IF k = key THEN v ELSE b[k]] :
            b \in base, key \in Keys, v \in OtherValues}

InitApi ==
    /\ pc = "off"
    /\ outcome = "running"
    /\ fg_raw = "none"
    /\ df_raw = NoDf
    /\ df = NoDf
    /\ df_sorted = NoDf
    /\ df_features = NoDf
    /\ store = <<>>
    /\ described = FALSE
    /\ feature_columns = <<>>
    /\ route = "none"
    /\ incoming = <<>>
    /\ latest = <<>>
    /\ x = <<>>
    /\ response = "none"
    /\ api_pc = "start"
    /\ TrainIdle

\* load_model_and_schema() at import: without model.pkl or
\* feature_columns.json the service does not start
LoadModelAndSchema ==
    /\ api_pc = "start"
    /\ \/ \E cols \in FeatureLists : feature_columns' = cols /\ api_pc' = "ready"
       \/ api_pc' = "failed" /\ UNCHANGED feature_columns
    /\ UNCHANGED <<route, incoming, latest, x, response>>
    /\ UNCHANGED <<fe_vars, train_vars>>

\* POST /predict: the vector is built and handed to the model, which
\* predicts or raises
Predict ==
    /\ api_pc = "ready"
    /\ route' = "predict"
    /\ \E payload \in Mappings :
        /\ incoming' = payload
        /\ x' = PredictVector(feature_columns, payload)
    /\ latest' = <<>>
    /\ response' \in {"200", "500"}
    /\ api_pc' = "responded"
    /\ UNCHANGED feature_columns
    /\ UNCHANGED <<fe_vars, train_vars>>

\* GET /predict/latest: 404 without features_data.csv, 400 when it has no
\* row, 500 when a value of the last row is no number
PredictLatest ==
    /\ api_pc = "ready"
    /\ route' = "latest"
    /\ incoming' = <<>>
    /\ \/ /\ response' \in {"404", "400"}
          /\ latest' = <<>>
          /\ x' = <<>>
       \/ \E row \in Mappings :
            /\ latest' = row
            /\ IF LatestRaises(feature_columns, row)
               THEN x' = <<>> /\ response' = "500"
               ELSE /\ x' = LatestVector(feature_columns, row)
                    /\ response' \in {"200", "500"}
    /\ api_pc' = "responded"
    /\ UNCHANGED feature_columns
    /\ UNCHANGED <<fe_vars, train_vars>>

\* the response is sent; the locals of the handler are gone and the
\* service waits for the next request
Respond ==
    /\ api_pc = "responded"
    /\ api_pc' = "ready"
    /\ route' = "none"
    /\ incoming' = <<>>
    /\ latest' = <<>>
    /\ x' = <<>>
    /\ response' = "none"
    /\ UNCHANGED feature_columns
    /\ UNCHANGED <<fe_vars, train_vars>>

NextApi ==
    \/ LoadModelAndSchema
    \/ Predict
    \/ PredictLatest
    \/ Respond

SpecApi == InitApi /\ [][NextApi]_vars

-----------------------------------------------------------------------------
(* train.py: the training script. *)

\* engineer_features(df_raw) as a whole, for a table it does not raise on
\* and whose rows sort in one way
EngineerFeatures(t) ==
    LET ord == CHOOSE o \in SortOrders(t.data["timestamp"]) : TRUE
    IN  Finalize(CleanUp(Targets(Interaction(Rolling(Lags(Cyclical(Impute(
            SortValues(t, ord)))))))))

\* the raw tables behind the feature tables train.py meets: one that gives
\* a single feature row, and two that give more, one of them with its
\* columns in another order
TrainVariants ==
    [kind : {"plain"}, n : {FullRows, FullRows + 1}, order : {"asc"},
     ch : {"none"}, at : {0}, len : {0}]
    \cup
    [kind : {"colorder"}, n : {FullRows + 1}, order : {"asc"},
     ch : {"none"}, at : {0}, len : {0}]

FeatureTables == {EngineerFeatures(RawTable(v)) : v \in TrainVariants}

\* fg.read(): the rows of the group under a new index
FgRead(t) == ResetIndex(t)

\* df.to_csv(path, index=False) and pd.read_csv(path) after it: the header
\* and the rows without the index; the timestamps come back as text
ToCsv(t) ==
    LET r == ResetIndex(t)
    IN  IF ~HasCol(r, "timestamp") THEN r
        ELSE [r EXCEPT !.data["timestamp"] =
                [i \in 1..NRows(r) |-> [ty |-> "str", n |-> @[i].n, d |-> 1]]]

\* what the group versions and the local files may hold when train.py
\* starts: tables main() of feature_engineering.py inserted, files an
\* earlier run of train.py saved, a file without the aqi column
GroupContents ==
    {Nothing("missing"), Nothing("unreadable")}
    \cup {Holding(t) : t \in FeatureTables}

FileContents ==
    {Nothing("absent"), Nothing("unreadable")}
    \cup {Holding(ToCsv(t)) : t \in FeatureTables}
    \cup {Holding(ToCsv(DropCols(t, {"aqi"}))) : t \in FeatureTables}

InitTrain ==
    /\ pc = "off"
    /\ outcome = "running"
    /\ fg_raw = "none"
    /\ df_raw = NoDf
    /\ df = NoDf
    /\ df_sorted = NoDf
    /\ df_features = NoDf
    /\ store = <<>>
    /\ described = FALSE
    /\ feature_columns = <<>>
    /\ route = "none"
    /\ incoming = <<>>
    /\ latest = <<>>
    /\ x = <<>>
    /\ response = "none"
    /\ api_pc = "off"
    /\ train_pc = "login"
    /\ train_out = "running"
    /\ hopsworks_up \in BOOLEAN
    /\ groups \in [{1, 2} -> GroupContents]
    /\ files \in [{"here", "cwd"} -> FileContents]
    /\ local_path = "none"
    /\ tried = <<>>
    /\ train_df = NoDf
    /\ columns_json = <<>>

\* what no step of train.py changes
TrainFrame ==
    /\ UNCHANGED <<hopsworks_up, groups>>
    /\ UNCHANGED <<fe_vars, api_vars>>

\* an exception leaves main(): the script ends with it
TrainRaise(what) ==
    /\ train_pc' = "done"
    /\ train_out' = what

\* load_features_from_feature_store, lines 14-16: an exception here goes
\* through line 27 to the handler of load_features_df
HopsworksLogin ==
    /\ train_pc = "login"
    /\ train_pc' = (IF hopsworks_up THEN "fg2" ELSE "local")
    /\ UNCHANGED <<train_out, files, local_path, tried, train_df, columns_json>>
    /\ TrainFrame

\* the name of a source in tried
VersionName(v) == IF v = 2 THEN "fg2" ELSE "fg1"

\* lines 18-25, one turn of the loop over (2, 1): the group is fetched and
\* read and the table returned; on an exception the next version is tried,
\* after version 1 the RuntimeError of line 25 goes to the handler
GetFeatureGroup(v) ==
    /\ train_pc = VersionName(v)
    /\ tried' = Append(tried, VersionName(v))
    /\ IF groups[v].state = "table"
       THEN train_df' = FgRead(groups[v].t) /\ train_pc' = "save"
       ELSE train_pc' = (IF v = 2 THEN "fg1" ELSE "local") /\ UNCHANGED train_df
    /\ UNCHANGED <<train_out, files, local_path, columns_json>>
    /\ TrainFrame

\* a slip: the file in the working directory looked at first
LocalPathCwdFirst(fs) == IF fs["cwd"].state # "absent" THEN "cwd" ELSE "here"

\* lines 38-41: the file next to train.py if it exists, else the file in
\* the working directory
LocalPath(fs) == IF fs["here"].state # "absent" THEN "here" ELSE "cwd"

\* the paths whose existence lines 40-42 ask for
PathsAsked(fs) == IF fs["here"].state # "absent" THEN <<"here">> ELSE <<"here", "cwd">>

ChooseLocalPath ==
    /\ train_pc = "local"
    /\ local_path' = LocalPath(files)
    /\ tried' = tried \o PathsAsked(files)
    /\ train_pc' = "read_csv"
    /\ UNCHANGED <<train_out, files, train_df, columns_json>>
    /\ TrainFrame

\* lines 42-46: FileNotFoundError without the file, else pd.read_csv, which
\* raises on a file it cannot parse
ReadLocal ==
    /\ train_pc = "read_csv"
    /\ IF files[local_path].state = "absent"
       THEN TrainRaise("FileNotFoundError") /\ UNCHANGED train_df
       ELSE IF files[local_path].state = "unreadable"
       THEN TrainRaise("read_error") /\ UNCHANGED train_df
       ELSE /\ train_df' = files[local_path].t
            /\ train_pc' = "save"
            /\ UNCHANGED train_out
    /\ UNCHANGED <<files, local_path, tried, columns_json>>
    /\ TrainFrame

\* line 53: df.to_csv("features_data.csv", index=False)
SaveCopy ==
    /\ train_pc = "save"
    /\ files' = [files EXCEPT !["cwd"] = Holding(ToCsv(train_df))]
    /\ train_pc' = "prepare"
    /\ UNCHANGED <<train_out, local_path, tried, train_df, columns_json>>
    /\ TrainFrame

\* lines 59, 63: the columns of df without aqi and timestamp
FeatureColumns(t) == SelectSeq(t.cols, LAMBDA c : c \notin {"aqi", "timestamp"})

\* lines 56-67: RuntimeError without the aqi column, else the list of
\* feature columns goes to feature_columns.json
Prepare ==
    /\ train_pc = "prepare"
    /\ IF ~HasCol(train_df, "aqi")
       THEN TrainRaise("RuntimeError") /\ UNCHANGED columns_json
       ELSE /\ columns_json' = FeatureColumns(train_df)
            /\ train_pc' = "fit"
            /\ UNCHANGED train_out
    /\ UNCHANGED <<files, local_path, tried, train_df>>
    /\ TrainFrame

\* train_test_split(test_size=0.2): the test rows are ceil(0.2 n), and a
\* training set without a row is a ValueError
TestRows(n) == (n + 4) \div 5

\* lines 70-82: the split, the fit, model.pkl, the metrics
Fit ==
    /\ train_pc = "fit"
    /\ IF NRows(train_df) - TestRows(NRows(train_df)) = 0
       THEN TrainRaise("ValueError")
       ELSE TrainRaise("complete")
    /\ UNCHANGED <<files, local_path, tried, train_df, columns_json>>
    /\ TrainFrame

NextTrain ==
    \/ HopsworksLogin
    \/ \E v \in {1, 2} : GetFeatureGroup(v)
    \/ ChooseLocalPath
    \/ ReadLocal
    \/ SaveCopy
    \/ Prepare
    \/ Fit

SpecTrain == InitTrain /\ [][NextTrain]_vars

-----------------------------------------------------------------------------
(* The claims.  Row position i of the claims is element i + 1. *)

LagNames == Range(Names(LagSpecs))

RollNames == Range(Names(RollSpecs))

\* the table with the value of channel c at sorted position j changed to v
Perturb(t, c, j, v) ==
    [t EXCEPT !.data[c] = [i \in 1..NRows(t) |-> IF i = j + 1 THEN v ELSE @[i]]]

PerturbValue == Flt(99)

\* the stages from the sorted table to the lag and rolling features
Derived(t) == Rolling(Lags(Cyclical(Impute(t))))

\* C1: every lag and rolling feature at row i is a function of the raw rows
\* before i only: changing the raw value of any channel at a sorted position
\* j >= i leaves the lag and rolling features of row i as they are.
C1_LagRollOnlyPast ==
    pc = "interaction" =>
        \A c \in Range(pollutant_cols) : \A j \in 0..(NRows(df_sorted) - 1) :
            LET t2 == Derived(Perturb(df_sorted, c, j, PerturbValue))
            IN  \A f \in LagNames \cup RollNames :
                    SubSeq(t2.data[f], 1, j + 1) = SubSeq(df.data[f], 1, j + 1)

\* the raw value of channel c at sorted position i, and its value in df
RawAt(c, i) == df_sorted.data[c][i + 1]

\* C2 as claimed: the target of every emitted row (sorted position i) is the
\* raw value of its channel at sorted position i + H.
C2_TargetIsRawAhead ==
    \A r \in 1..NRows(df_features) : \A k \in 1..Len(targets) :
        LET i == df_features.idx[r]
        IN  /\ i + targets[k].h < NRows(df_sorted)
            /\ NumEq(df_features.data[targets[k].name][r],
                     RawAt(targets[k].col, i + targets[k].h))

\* C2 as amended: the target of every emitted row (sorted position i) is the
\* value of its channel at sorted position i + H after the imputation: the
\* raw value where the raw table has one, and where it has a null, the
\* linear interpolation of the raw channel at that position.
C2_TargetIsImputedAhead ==
    \A r \in 1..NRows(df_features) : \A k \in 1..Len(targets) :
        LET i  == df_features.idx[r]
            tv == df_features.data[targets[k].name][r]
        IN  /\ i + targets[k].h < NRows(df_sorted)
            /\ IF ~IsNull(RawAt(targets[k].col, i + targets[k].h))
               THEN NumEq(tv, RawAt(targets[k].col, i + targets[k].h))
               ELSE NumEq(tv, Interpolate(df_sorted.data[targets[k].col])
                                  [i + targets[k].h + 1])

\* an emitted row whose target position holds a null in the raw table
C2_Witness ==
    /\ pc = "check_features"
    /\ \E r \in 1..NRows(df_features) : \E k \in 1..Len(targets) :
          IsNull(RawAt(targets[k].col, df_features.idx[r] + targets[k].h))

\* the example of the spec: pm2_5 = [10, 20, 30, 40, 50]
IsExample(t) ==
    /\ NRows(t) = 5
    /\ t.data["pm2_5"] = <<Flt(10), Flt(20), Flt(30), Flt(40), Flt(50)>>

\* the stages at which df holds every row and the lag columns
LagsPresent == pc \in {"rolling", "interaction", "targets", "cleanup"}

\* C3: for every channel c of pollutants, every horizon h of 1, 3, 24 and
\* every row position i, c_lag_<h>h at row i is the value of c at row
\* position i - h when i >= h and a null when i < h; in the example the
\* lag-1 feature at position 4 is 40.
C3_LagIsValueHRowsBack ==
    LagsPresent =>
        /\ \A c \in {"pm2_5", "pm10", "co", "o3", "no2", "so2"} :
           \A h \in {1, 3, 24} : \A i \in 0..(NRows(df) - 1) :
              IF i >= h
              THEN df.data[LagName(c, h)][i + 1] = df.data[c][i - h + 1]
              ELSE IsNull(df.data[LagName(c, h)][i + 1])
        /\ IsExample(df) => df.data["pm2_5_lag_1h"][5] = Flt(40)

\* a table long enough for the 24-row lag: at position 24 it is the value
\* of position 0, at position 23 still a null
C3_Witness ==
    /\ pc = "rolling"
    /\ NRows(df) > 24
    /\ IsNull(df.data["so2_lag_24h"][24])
    /\ ~IsNull(df.data["so2_lag_24h"][25])
    /\ df.data["so2_lag_24h"][25] = df.data["so2"][1]

RECURSIVE DirectSum(_, _, _)
DirectSum(s, lo, hi) ==
    IF lo > hi THEN Flt(0) ELSE Add(s[lo], DirectSum(s, lo + 1, hi))

\* C4: for every channel c of pollutants, every window w of 3, 12, 24 and
\* every row position i, c_roll_avg_<w>h at row i is the mean of c over the
\* w rows at positions i-w .. i-1 and a null when i < w; in the example the
\* window-3 mean at position 4 is 30.
C4_RollMeanOverPriorRows ==
    pc = "interaction" =>
        /\ \A c \in {"pm2_5", "pm10", "co", "o3", "no2", "so2"} :
           \A w \in {3, 12, 24} : \A i \in 0..(NRows(df) - 1) :
              LET avg == df.data[RollAvgName(c, w)][i + 1]
              IN  IF i < w THEN IsNull(avg)
                  ELSE (\A j \in (i - w)..(i - 1) : ~IsNull(df.data[c][j + 1])) =>
                          /\ ~IsNull(avg)
                          /\ Mul(avg, Flt(w)) = DirectSum(df.data[c], i - w + 1, i)
        /\ IsExample(df) => df.data["pm2_5_roll_avg_3h"][5] = Flt(30)

\* a table long enough for the 24-row window: the mean at position 24 is
\* there, the mean at position 23 is not
C4_Witness ==
    /\ pc = "interaction"
    /\ NRows(df) > 24
    /\ IsNull(df.data["pm2_5_roll_avg_24h"][24])
    /\ ~IsNull(df.data["pm2_5_roll_avg_24h"][25])

\* C5: the table engineer_features returns holds no null, in no column of
\* no row.
C5_NoNullInReturnedTable == ~HasNull(df_features)

\* a table is returned with rows, from a raw table that had nulls
C5_Witness ==
    /\ pc = "check_features"
    /\ NRows(df_features) > 0
    /\ HasNull(df_sorted)

\* C6: after the imputation stage no configured channel holds a null in any
\* row, whatever the table of at least one row, a channel that is null in
\* every row included.
C6_NoNullAfterImputation ==
    pc = "cyclical" =>
        \A k \in 1..Len(pollutant_cols) : NullCount(df.data[pollutant_cols[k]]) = 0

\* C7: the imputation leaves the non-null values of a channel as they are
\* and puts a single null between two non-null neighbours midway between
\* them, strictly between them when they differ; [10, null, 30] becomes
\* [10, 20, 30].
C7_SingleGapInterpolated ==
    pc = "cyclical" =>
        /\ \A k \in 1..Len(pollutant_cols) : \A i \in 0..(NRows(df) - 1) :
              LET c   == pollutant_cols[k]
                  imp == df.data[c][i + 1]
              IN  /\ ~IsNull(RawAt(c, i)) => NumEq(imp, RawAt(c, i))
                  /\ ( /\ IsNull(RawAt(c, i))
                       /\ 1 <= i /\ i <= NRows(df) - 2
                       /\ ~IsNull(RawAt(c, i - 1)) /\ ~IsNull(RawAt(c, i + 1)) ) =>
                        /\ NumEq(Add(imp, imp), Add(RawAt(c, i - 1), RawAt(c, i + 1)))
                        /\ NumLess(RawAt(c, i - 1), RawAt(c, i + 1)) =>
                              NumLess(RawAt(c, i - 1), imp) /\ NumLess(imp, RawAt(c, i + 1))
                        /\ NumLess(RawAt(c, i + 1), RawAt(c, i - 1)) =>
                              NumLess(RawAt(c, i + 1), imp) /\ NumLess(imp, RawAt(c, i - 1))
        /\ df_sorted.data["pm2_5"] = <<Flt(10), NaN, Flt(30)>> =>
              df.data["pm2_5"] = <<Flt(10), Flt(20), Flt(30)>>

\* the example: [10, null, 30] has been imputed
C7_Witness ==
    /\ pc = "cyclical"
    /\ df_sorted.data["pm2_5"] = <<Flt(10), NaN, Flt(30)>>
    /\ df.data["pm2_5"][2] = Flt(20)

\* C8: after the time normalisation the rows are in ascending order of
\* timestamp with one row per timestamp: the timestamps increase strictly.
C8_OneRowPerTimestamp ==
    pc = "impute" =>
        \A i \in 1..(NRows(df) - 1) :
            df.data["timestamp"][i].n < df.data["timestamp"][i + 1].n

\* C9: main() inserts into the engineered group at most once, and only when
\* the raw group was retrieved, the raw table has rows and engineer_features
\* returned a table with rows and no null, which is the table inserted; the
\* runs that end on a missing raw group, an empty raw table, an empty
\* feature table or an exception have inserted nothing.
C9_InsertOnceAfterFeatures ==
    /\ Len(store) <= 1
    /\ store # <<>> =>
          /\ fg_raw = "retrieved"
          /\ NRows(df_raw) > 0
          /\ NRows(df_features) > 0
          /\ store[1] = df_features
          /\ ~HasNull(store[1])
    /\ outcome \in {"raw_group_missing", "raw_empty", "features_empty", "exception"} =>
          pc = "done" /\ store = <<>>
    /\ pc = "done" /\ outcome = "complete" => Len(store) = 1

\* a run that went through to the insert
C9_Witness ==
    /\ pc = "done"
    /\ outcome = "complete"
    /\ Len(store) = 1
    /\ NRows(store[1]) > 0

\* C10: the vector POST /predict hands to the model has one entry per name
\* of feature_columns, in that order: the request's value for the name when
\* the request has the name and float() converts its value, 0 otherwise;
\* the keys of the request that are no feature name change nothing.
C10_VectorFollowsFeatureColumns ==
    (api_pc = "responded" /\ route = "predict") =>
        /\ Len(x) = Len(feature_columns)
        /\ \A k \in 1..Len(feature_columns) :
              LET c == feature_columns[k]
              IN  IF c \in DOMAIN incoming /\ ~FloatRaises(incoming[c])
                  THEN /\ x[k] = PyFloat(incoming[c])
                       /\ incoming[c] = JInt(7) => x[k] = Flt(7)
                       /\ incoming[c] = JFloat(5, 2) => x[k] = Norm(5, 2)
                       /\ incoming[c] = JTrue => x[k] = Flt(1)
                       /\ incoming[c] = JStr(<<"1", ".", "5">>) => x[k] = Norm(3, 2)
                       /\ incoming[c] = JStr(<<"-", "5">>) => x[k] = Flt(-5)
                  ELSE x[k] = Flt(0)
        /\ x = PredictVector(feature_columns,
                             [c \in DOMAIN incoming \ {"city"} |-> incoming[c]])

\* a request with a name missing, a text that is a number, a value that is
\* no number and a key that is no feature name
C10_Witness ==
    /\ api_pc = "responded"
    /\ route = "predict"
    /\ feature_columns = <<"pm2_5", "pm10", "hour_sin">>
    /\ DOMAIN incoming = {"pm2_5", "hour_sin", "city"}
    /\ incoming["pm2_5"] = JStr(<<"-", "5">>)
    /\ incoming["hour_sin"] = JNone
    /\ x = <<Flt(-5), Flt(0), Flt(0)>>

\* the raw table has one row per timestamp and a value in every configured
\* channel
UniqueTimestamps(t) ==
    \A i \in 1..NRows(t) : \A j \in 1..NRows(t) :
        i # j => t.data["timestamp"][i].n # t.data["timestamp"][j].n

EveryChannelHasValue(t) ==
    \A k \in 1..Len(pollutant_cols) :
        NullCount(t.data[pollutant_cols[k]]) < NRows(t)

\* C12: from a raw table of N rows with one row per timestamp and a value
\* in every configured channel, engineer_features returns the rows of
\* sorted positions 24 .. N-7 and no other, N-30 of them and none when
\* N <= 30, in ascending order of timestamp: a row is dropped exactly when
\* fewer than 24 rows precede it or fewer than 6 follow it.
C12_EmitsRows24ToNMinus7 ==
    ( /\ pc = "check_features"
      /\ UniqueTimestamps(df_sorted)
      /\ EveryChannelHasValue(df_sorted) ) =>
        LET N == NRows(df_sorted)
        IN  /\ NRows(df_features) = (IF N > 30 THEN N - 30 ELSE 0)
            /\ \A i \in 0..(N - 1) :
                  (\E r \in 1..NRows(df_features) : df_features.idx[r] = i)
                      <=> (i >= 24 /\ i <= N - 7)
            /\ \A r \in 1..(NRows(df_features) - 1) :
                  /\ df_features.idx[r] < df_features.idx[r + 1]
                  /\ df_features.data["timestamp"][r].n
                        < df_features.data["timestamp"][r + 1].n
            /\ \A r \in 1..NRows(df_features) :
                  df_features.data["timestamp"][r] =
                      df_sorted.data["timestamp"][df_features.idx[r] + 1]

\* a table with nulls and more than 31 rows, read newest row first or with
\* hours missing: the rows after position 24 and before position N-6 are
\* returned
C12_Witness ==
    /\ pc = "check_features"
    /\ UniqueTimestamps(df_sorted)
    /\ EveryChannelHasValue(df_sorted)
    /\ NRows(df_sorted) > 31
    /\ HasNull(df_sorted)
    /\ df_features.idx = [r \in 1..(NRows(df_sorted) - 30) |-> 23 + r]

\* train.py has written feature_columns.json
SpecWritten == train_pc \in {"fit", "done"} /\ columns_json # <<>>

\* C11: the column order of the feature table (the table engineer_features
\* produced, which train.py saves as features_data.csv) is the list train.py
\* writes to feature_columns.json, on every run, whatever the row values and
\* the column order of the raw table.
C11_ColumnOrderIsFeatureSpec ==
    SpecWritten =>
        /\ train_df.cols = columns_json
        /\ files["cwd"].t.cols = columns_json
        /\ \A t \in FeatureTables : t.cols = train_df.cols

\* load_features_df has returned; it has raised
LoadReturned == train_pc = "save"

LoadRaised == train_pc = "done" /\ train_out \in {"FileNotFoundError", "read_error"}

\* the sources in the order of the claim, and whether a source has data
SourceOrder == <<"fg2", "fg1", "here", "cwd">>

Yields(src) ==
    IF src = "fg2" THEN hopsworks_up /\ groups[2].state = "table"
    ELSE IF src = "fg1" THEN hopsworks_up /\ groups[1].state = "table"
    ELSE files[src].state = "table"

\* C13 as claimed: every source is tried only after all the sources before
\* it failed, the table returned is that of the first source with data, and
\* the function raises, a FileNotFoundError, exactly when no source has data.
C13_FirstSourceThatSucceeds ==
    (LoadReturned \/ LoadRaised) =>
        /\ \A i \in 1..Len(tried) : \A k \in 1..4 :
              tried[i] = SourceOrder[k] => \A j \in 1..(k - 1) : ~Yields(SourceOrder[j])
        /\ LoadReturned =>
              \E k \in 1..4 :
                  /\ tried[Len(tried)] = SourceOrder[k]
                  /\ Yields(SourceOrder[k])
                  /\ \A j \in 1..(k - 1) : ~Yields(SourceOrder[j])
        /\ LoadRaised <=> \A k \in 1..4 : ~Yields(SourceOrder[k])
        /\ LoadRaised => train_out = "FileNotFoundError"

\* C13 as amended: version 2 is tried, then version 1 after version 2
\* failed, neither when the login fails, and the first that reads is
\* returned; when the feature store fails, the file next to train.py is
\* read if it exists, and the file in the working directory only when the
\* first does not exist; the function raises FileNotFoundError exactly when
\* the feature store fails and neither file exists, and a chosen file that
\* exists and cannot be parsed makes it raise the parser's error without
\* the other file being tried.
C13_FallbackOrder ==
    (LoadReturned \/ LoadRaised) =>
        LET locals == IF files["here"].state = "absent"
                      THEN <<"here", "cwd">> ELSE <<"here">>
            last   == IF files["here"].state = "absent" THEN "cwd" ELSE "here"
            local  == /\ IF files[last].state = "table"
                         THEN LoadReturned /\ train_df = files[last].t
                         ELSE /\ LoadRaised
                              /\ train_out = "FileNotFoundError"
                                    <=> files[last].state = "absent"
                      /\ local_path = last
        IN  IF ~hopsworks_up THEN tried = locals /\ local
            ELSE IF groups[2].state = "table"
            THEN /\ tried = <<"fg2">>
                 /\ LoadReturned
                 /\ train_df.cols = groups[2].t.cols /\ train_df.data = groups[2].t.data
            ELSE IF groups[1].state = "table"
            THEN /\ tried = <<"fg2", "fg1">>
                 /\ LoadReturned
                 /\ train_df.cols = groups[1].t.cols /\ train_df.data = groups[1].t.data
            ELSE tried = <<"fg2", "fg1">> \o locals /\ local

\* both versions failed and no file stands next to train.py: the file of
\* the working directory is returned, after the three other sources
C13_Witness ==
    /\ LoadReturned
    /\ tried = <<"fg2", "fg1", "here", "cwd">>
    /\ groups[2].state = "unreadable"
    /\ groups[1].state = "missing"
    /\ train_df = files["cwd"].t
    /\ NRows(train_df) > 0

\* C14: the list train.py writes to feature_columns.json holds none of the
\* target columns pm2_5_target_1h, pm2_5_target_6h, aqi_target_1h of the
\* table engineer_features produced.
C14_NoTargetAmongFeatures ==
    SpecWritten =>
        \A k \in 1..Len(columns_json) :
            columns_json[k] \notin {"pm2_5_target_1h", "pm2_5_target_6h", "aqi_target_1h"}

====
